---- MODULE Spec2Model ----
(***************************************************************************)
(* A model of ts-qs: parse (src/src/parser.ts) and stringify (the          *)
(* stringifier, second half of src/src/types.ts) with the helpers of       *)
(* src/src/utils.ts and src/src/encoding.ts.                               *)
(*                                                                         *)
(* Strings are sequences of one-character strings, so that splitting,      *)
(* bracket scanning, percent escapes and concatenation are computed as     *)
(* the code computes them.  JavaScript values are tagged records:          *)
(*   string  [t |-> "string",  v |-> <<chars>>]                            *)
(*   number  [t |-> "number",  v |-> n]         (naturals only)            *)
(*   boolean [t |-> "boolean", v |-> b]                                    *)
(*   null / undefined                                                      *)
(*   array   [t |-> "array",   v |-> <<elements>>]  (a hole is undefined)  *)
(*   object  [t |-> "object",  k |-> <<keys in insertion order>>,          *)
(*            v |-> [key |-> value], p |-> has Object.prototype]           *)
(* A thrown error is the value [t |-> "throw", v |-> code]; every          *)
(* operator that models a statement sequence passes it on.  The source is  *)
(* an ES module, hence strict-mode code: an assignment to a property of a  *)
(* primitive throws a TypeError.                                           *)
(*                                                                         *)
(* Left out, and fixed in every initial state: Date values and parseDates, *)
(* custom encoder/decoder/serializeDate hooks, interpretNumericEntities,   *)
(* the iso-8859-1 charset, regular-expression delimiters, negative and     *)
(* fractional numbers, and property names that JavaScript itself gives a   *)
(* meaning on arrays and strings (length, push).                           *)
(***************************************************************************)
EXTENDS Integers, Sequences, FiniteSets, TLC

VARIABLES
  data,           \* stringify's input value (undefined when parse is called directly)
  sopts,          \* stringify's options
  opts,           \* parse's options, before validation
  input,          \* parse's input string
  pairs,          \* parse: the delimiter-separated pairs
  parameterCount, \* parse: the loop counter
  result,         \* parse: the accumulated result
  pc,             \* "stringify", "parse", "loop", "return", "done", "thrown"
  error           \* the code of the error raised, "none" otherwise

vars == <<data, sopts, opts, input, pairs, parameterCount, result, pc, error>>

----------------------------------------------------------------------------
(* Strings *)

Digits == {"0", "1", "2", "3", "4", "5", "6", "7", "8", "9"}

Contains(s, c) == \E i \in 1..Len(s) : s[i] = c

\* String.prototype.indexOf for one character, 1-based; 0 when absent
IndexOf(s, c) ==
  IF Contains(s, c)
  THEN CHOOSE i \in 1..Len(s) : s[i] = c /\ \A j \in 1..(i - 1) : s[j] # c
  ELSE 0

RECURSIVE SplitBy(_, _)
\* String.prototype.split with a one-character separator
SplitBy(s, c) ==
  IF ~Contains(s, c) THEN <<s>>
  ELSE LET i == IndexOf(s, c)
       IN <<SubSeq(s, 1, i - 1)>> \o SplitBy(SubSeq(s, i + 1, Len(s)), c)

RECURSIVE Join(_, _)
\* Array.prototype.join
Join(ss, sep) ==
  IF ss = <<>> THEN <<>>
  ELSE IF Len(ss) = 1 THEN ss[1]
  ELSE ss[1] \o sep \o Join(Tail(ss), sep)

RECURSIVE Concat(_)
\* join('')
Concat(ss) == IF ss = <<>> THEN <<>> ELSE ss[1] \o Concat(Tail(ss))

RECURSIVE TrimLeft(_)
TrimLeft(s) == IF s # <<>> /\ s[1] = " " THEN TrimLeft(Tail(s)) ELSE s

RECURSIVE TrimRight(_)
TrimRight(s) ==
  IF s # <<>> /\ s[Len(s)] = " " THEN TrimRight(SubSeq(s, 1, Len(s) - 1)) ELSE s

\* String.prototype.trim
Trim(s) == TrimRight(TrimLeft(s))

DigitVal(c) ==
  CASE c = "0" -> 0 [] c = "1" -> 1 [] c = "2" -> 2 [] c = "3" -> 3 [] c = "4" -> 4
    [] c = "5" -> 5 [] c = "6" -> 6 [] c = "7" -> 7 [] c = "8" -> 8 [] c = "9" -> 9

DigitChar(n) ==
  CASE n = 0 -> "0" [] n = 1 -> "1" [] n = 2 -> "2" [] n = 3 -> "3" [] n = 4 -> "4"
    [] n = 5 -> "5" [] n = 6 -> "6" [] n = 7 -> "7" [] n = 8 -> "8" [] n = 9 -> "9"

RECURSIVE ParseIntAcc(_, _)
ParseIntAcc(s, acc) ==
  IF s = <<>> THEN acc ELSE ParseIntAcc(Tail(s), acc * 10 + DigitVal(s[1]))

\* parseInt(s, 10) and Number(s) for a string of decimal digits
parseInt(s) == ParseIntAcc(s, 0)

RECURSIVE NumberToString(_)
\* String(n) for a natural number
NumberToString(n) ==
  IF n < 10 THEN <<DigitChar(n)>>
  ELSE NumberToString(n \div 10) \o <<DigitChar(n % 10)>>

----------------------------------------------------------------------------
(* Values *)

Str(s) == [t |-> "string", v |-> s]
Num(n) == [t |-> "number", v |-> n]
Bool(b) == [t |-> "boolean", v |-> b]
Null == [t |-> "null"]
Undef == [t |-> "undefined"]
Arr(es) == [t |-> "array", v |-> es]
Throw(code) == [t |-> "throw", v |-> code]

IsThrow(x) == x.t = "throw"

\* {} when proto, Object.create(null) otherwise
EmptyObject(proto) == [t |-> "object", k |-> <<>>, v |-> <<>>, p |-> proto]

\* Array.isArray
IsArray(x) == x.t = "array"

\* utils.isObject
isObject(x) == x.t = "object"

\* ToBoolean
Truthy(x) ==
  CASE x.t = "string" -> x.v # <<>>
    [] x.t = "number" -> x.v # 0
    [] x.t = "boolean" -> x.v
    [] x.t \in {"null", "undefined"} -> FALSE
    [] OTHER -> TRUE

\* utils.isArrayIndex: /^\d+$/
isArrayIndex(key) == key # <<>> /\ \A i \in 1..Len(key) : key[i] \in Digits

\* a property name that addresses an array element: the canonical decimal text
IsCanonicalIndex(key) == isArrayIndex(key) /\ (Len(key) = 1 \/ key[1] # "0")

ToStringKey == <<"t", "o", "S", "t", "r", "i", "n", "g">>
ValueOfKey == <<"v", "a", "l", "u", "e", "O", "f">>
HasOwnPropertyKey == <<"h", "a", "s", "O", "w", "n", "P", "r", "o", "p", "e", "r", "t", "y">>

\* function-valued members that {} inherits from Object.prototype (the
\* accessor __proto__ is not among them: it is read only under allowPrototypes)
ObjectPrototypeMembers ==
  {ToStringKey, ValueOfKey, HasOwnPropertyKey,
   <<"c", "o", "n", "s", "t", "r", "u", "c", "t", "o", "r">>}

\* the function found under an inherited name
Inherited(key) == [t |-> "function", v |-> key]

\* obj[key] read: an own property, or on {} a member of Object.prototype
Get(o, key) ==
  CASE o.t = "object" ->
         IF key \in DOMAIN o.v THEN o.v[key]
         ELSE IF o.p /\ key \in ObjectPrototypeMembers THEN Inherited(key)
         ELSE Undef
    [] o.t = "array" ->
         IF IsCanonicalIndex(key) /\ parseInt(key) < Len(o.v)
         THEN o.v[parseInt(key) + 1] ELSE Undef
    [] o.t = "string" ->
         IF IsCanonicalIndex(key) /\ parseInt(key) < Len(o.v)
         THEN Str(<<o.v[parseInt(key) + 1]>>) ELSE Undef
    [] OTHER -> Undef

RECURSIVE Pad(_, _)
\* while (arr.length <= index) arr.push(undefined)
Pad(es, index) == IF Len(es) <= index THEN Pad(Append(es, Undef), index) ELSE es

\* obj[key] = val; strict mode: a primitive receiver throws
Set(o, key, val) ==
  CASE o.t = "object" ->
         IF key \in DOMAIN o.v
         THEN [o EXCEPT !.v[key] = val]
         ELSE [o EXCEPT !.k = Append(o.k, key), !.v = (key :> val) @@ o.v]
    [] o.t = "array" ->
         IF IsCanonicalIndex(key)
         THEN Arr([Pad(o.v, parseInt(key)) EXCEPT ![parseInt(key) + 1] = val])
         ELSE Throw("UNMODELLED")
    [] o.t \in {"string", "number", "boolean", "null", "undefined"} -> Throw("TypeError")
    [] OTHER -> Throw("UNMODELLED")

----------------------------------------------------------------------------
(* encoding.ts *)

UpperHex == {"A", "B", "C", "D", "E", "F"}
LowerHex == {"a", "b", "c", "d", "e", "f"}
Letters ==
  {"a", "b", "c", "d", "e", "f", "g", "h", "i", "j", "k", "l", "m", "n", "o", "p", "q",
   "r", "s", "t", "u", "v", "w", "x", "y", "z",
   "A", "B", "C", "D", "E", "F", "G", "H", "I", "J", "K", "L", "M", "N", "O", "P", "Q",
   "R", "S", "T", "U", "V", "W", "X", "Y", "Z"}

IsHex(c) == c \in Digits \cup UpperHex \cup LowerHex

\* the characters rfc3986Encoder leaves alone: encodeURIComponent's unreserved
\* set without ! ' ( ) *
Unreserved == Letters \cup Digits \cup {"-", "_", ".", "~"}

\* the percent escape of a reserved character (the ASCII ones of the alphabet)
EscapeOf(c) ==
  CASE c = " " -> <<"%", "2", "0">>
    [] c = "%" -> <<"%", "2", "5">>
    [] c = "&" -> <<"%", "2", "6">>
    [] c = "+" -> <<"%", "2", "B">>
    [] c = "," -> <<"%", "2", "C">>
    [] c = "=" -> <<"%", "3", "D">>
    [] c = "?" -> <<"%", "3", "F">>
    [] c = "[" -> <<"%", "5", "B">>
    [] c = "]" -> <<"%", "5", "D">>

UpperOf(c) ==
  CASE c = "a" -> "A" [] c = "b" -> "B" [] c = "c" -> "C" [] c = "d" -> "D"
    [] c = "e" -> "E" [] c = "f" -> "F" [] OTHER -> c

\* the character a two-digit escape stands for (the ASCII ones of the alphabet)
CharOfEscape(hi, lo) ==
  LET e == <<hi, UpperOf(lo)>>
  IN CASE e = <<"2", "0">> -> " "
       [] e = <<"2", "5">> -> "%"
       [] e = <<"2", "6">> -> "&"
       [] e = <<"2", "B">> -> "+"
       [] e = <<"2", "C">> -> ","
       [] e = <<"2", "E">> -> "."
       [] e = <<"3", "D">> -> "="
       [] e = <<"3", "F">> -> "?"
       [] e = <<"5", "B">> -> "["
       [] e = <<"5", "D">> -> "]"
       [] e = <<"5", "F">> -> "_"
       [] e = <<"6", "1">> -> "a"
       [] OTHER -> "\\uFFFD"

RECURSIVE EncodeURIComponent(_)
\* rfc3986Encoder
EncodeURIComponent(s) ==
  IF s = <<>> THEN <<>>
  ELSE (IF s[1] \in Unreserved THEN <<s[1]>> ELSE EscapeOf(s[1]))
       \o EncodeURIComponent(Tail(s))

rfc3986Encoder(s) == EncodeURIComponent(s)

RECURSIVE ReplaceChar(_, _, _)
\* str.replace(/c/g, by)
ReplaceChar(s, c, by) ==
  IF s = <<>> THEN <<>>
  ELSE (IF s[1] = c THEN by ELSE <<s[1]>>) \o ReplaceChar(Tail(s), c, by)

\* the UTF-8 escape of the check mark, the one multi-byte character of the model
CheckMarkEscape == <<"%", "E", "2", "%", "9", "C", "%", "9", "3">>

RECURSIVE WellFormed(_)
\* decodeURIComponent accepts s: every % starts a two-hex-digit escape of an
\* ASCII character (a lone byte above 0x7F is a URIError as well)
WellFormed(s) ==
  IF s = <<>> THEN TRUE
  ELSE IF Len(s) >= 9 /\ SubSeq(s, 1, 9) = CheckMarkEscape
       THEN WellFormed(SubSeq(s, 10, Len(s)))
  ELSE IF s[1] = "%"
       THEN /\ Len(s) >= 3
            /\ s[2] \in {"0", "1", "2", "3", "4", "5", "6", "7"}
            /\ IsHex(s[3])
            /\ WellFormed(SubSeq(s, 4, Len(s)))
       ELSE WellFormed(Tail(s))

RECURSIVE Unescape(_)
Unescape(s) ==
  IF s = <<>> THEN <<>>
  ELSE IF Len(s) >= 9 /\ SubSeq(s, 1, 9) = CheckMarkEscape
       THEN <<"\\u2713">> \o Unescape(SubSeq(s, 10, Len(s)))
  ELSE IF s[1] = "%"
       THEN <<CharOfEscape(s[2], s[3])>> \o Unescape(SubSeq(s, 4, Len(s)))
       ELSE <<s[1]>> \o Unescape(Tail(s))

\* decodeURIComponent(str.replace(/\+/g, ' ')), the original string on a URIError
defaultDecoder(str) ==
  LET spaced == ReplaceChar(str, "+", <<" ">>)
  IN IF WellFormed(spaced) THEN Unescape(spaced) ELSE str

\* decode, charset utf-8
decode(str) == defaultDecoder(str)

\* encode, charset utf-8
encode(str) == rfc3986Encoder(str)

----------------------------------------------------------------------------
(* utils.ts *)

\* /^-?\d+(\.\d+)?$/ on the strings of the model: decimal digits only
isNumericString(str) == isArrayIndex(str)

isBooleanString(str) ==
  str = <<"t", "r", "u", "e">> \/ str = <<"f", "a", "l", "s", "e">>

autoConvert(str, parseNumbers, parseBooleans) ==
  IF str = <<>> THEN Str(str)
  ELSE IF parseBooleans /\ isBooleanString(str) THEN Bool(str = <<"t", "r", "u", "e">>)
  ELSE IF parseNumbers /\ isNumericString(str) THEN Num(parseInt(str))
  ELSE Str(str)

ProtoKey == <<"_", "_", "p", "r", "o", "t", "o", "_", "_">>
ConstructorKey == <<"c", "o", "n", "s", "t", "r", "u", "c", "t", "o", "r">>
PrototypeKey == <<"p", "r", "o", "t", "o", "t", "y", "p", "e">>

\* hasPrototypePollution without its second comparison
hasPrototypePollutionNoConstructor(key) == key = ProtoKey \/ key = PrototypeKey

hasPrototypePollution(key) ==
  key = ProtoKey \/ key = ConstructorKey \/ key = PrototypeKey

safeSetProperty(obj, key, value, allowPrototypes) ==
  IF ~allowPrototypes /\ hasPrototypePollution(key) THEN obj
  ELSE Set(obj, key, value)

RECURSIVE BracketScan(_, _, _, _, _, _)
\* the loop of parseBracketNotation, from character i on
BracketScan(key, i, segments, current, inBrackets, bracketDepth) ==
  IF i > Len(key)
  THEN IF current # <<>> THEN Append(segments, current) ELSE segments
  ELSE LET char == key[i]
       IN IF char = "[" /\ ~inBrackets
          THEN BracketScan(key, i + 1,
                           IF current # <<>> THEN Append(segments, current) ELSE segments,
                           <<>>, TRUE, 1)
          ELSE IF char = "[" /\ inBrackets
          THEN BracketScan(key, i + 1, segments, Append(current, char), inBrackets,
                           bracketDepth + 1)
          ELSE IF char = "]" /\ inBrackets
          THEN IF bracketDepth - 1 = 0
               THEN BracketScan(key, i + 1, Append(segments, current), <<>>, FALSE, 0)
               ELSE BracketScan(key, i + 1, segments, Append(current, char), inBrackets,
                                bracketDepth - 1)
          ELSE BracketScan(key, i + 1, segments, Append(current, char), inBrackets,
                           bracketDepth)

parseBracketNotation(key) == BracketScan(key, 1, <<>>, <<>>, FALSE, 0)

\* checkLimit(current, limit, 'Parameter', throwOnExceeded)
checkLimit(current, limit, throwOnExceeded) ==
  IF current > limit /\ throwOnExceeded THEN Throw("LIMIT_EXCEEDED_PARAMETER") ELSE Undef

\* str.split(delimiter) with a one-character string delimiter
splitByDelimiter(str, delimiter) == SplitBy(str, delimiter)

----------------------------------------------------------------------------
(* parser.ts *)

\* opts.plainObjects ? createPlainObject() : {}
NewObj(o) == EmptyObject(~o.plainObjects)

\* arr[index] and arr[index] = val with a number as index
GetIndex(arr, index) == Get(arr, NumberToString(index))
SetIndex(arr, index, val) == Set(arr, NumberToString(index), val)

\* The code changes containers in place.  Here a changed child is stored back
\* into its parent; a primitive child is never changed, and nothing is stored.
Put(o, key, child) == IF child.t \in {"object", "array"} THEN Set(o, key, child) ELSE o
PutIndex(arr, index, child) == Put(arr, NumberToString(index), child)

\* handleDuplicateKey without its Array.isArray branch: a third occurrence
\* wraps the sequence again instead of appending to it
handleDuplicateKeyNoAppend(obj, key, value, o) ==
  LET existing == Get(obj, key)
  IN IF existing = Undef THEN safeSetProperty(obj, key, value, o.allowPrototypes)
     ELSE IF o.duplicates = "first" THEN obj
     ELSE IF o.duplicates = "last" THEN safeSetProperty(obj, key, value, o.allowPrototypes)
     ELSE safeSetProperty(obj, key, Arr(<<existing, value>>), o.allowPrototypes)

handleDuplicateKey(obj, key, value, o) ==
  LET existing == Get(obj, key)
  IN IF existing = Undef THEN safeSetProperty(obj, key, value, o.allowPrototypes)
     ELSE IF o.duplicates = "first" THEN obj
     ELSE IF o.duplicates = "last" THEN safeSetProperty(obj, key, value, o.allowPrototypes)
     ELSE IF IsArray(existing) THEN Put(obj, key, Arr(Append(existing.v, value)))
     ELSE safeSetProperty(obj, key, Arr(<<existing, value>>), o.allowPrototypes)

\* FlatKey joining the remaining segments without their brackets
FlatKeyNoBrackets(keyPath) == Concat(keyPath)

\* keyPath[0] + keyPath.slice(1).map(k => `[${k}]`).join('')
FlatKey(keyPath) ==
  IF keyPath = <<>> THEN <<"u", "n", "d", "e", "f", "i", "n", "e", "d">>
  ELSE keyPath[1]
       \o Concat([i \in 1..(Len(keyPath) - 1) |-> <<"[">> \o keyPath[i + 1] \o <<"]">>])

\* the while loop running one element too far
GrowOneMore(arr, index) ==
  CASE arr.t = "array" -> Arr(Pad(arr.v, index + 1))
    [] OTHER -> arr

\* the while loop of handleArrayValue; arr.length is undefined on a mapping
Grow(arr, index) ==
  CASE arr.t = "array" -> Arr(Pad(arr.v, index))
    [] arr.t = "string" -> IF Len(arr.v) <= index THEN Throw("TypeError") ELSE arr
    [] OTHER -> arr

RECURSIVE CopyElements(_, _, _)
\* for (i < arr.length) if (arr[i] !== undefined) objValue[i.toString()] = arr[i]
CopyElements(arr, i, objValue) ==
  IF ~(arr.t \in {"array", "string"}) \/ i >= Len(arr.v) THEN objValue
  ELSE CopyElements(arr, i + 1,
                    IF GetIndex(arr, i) # Undef
                    THEN Set(objValue, NumberToString(i), GetIndex(arr, i))
                    ELSE objValue)

RECURSIVE setNestedValue(_, _, _, _, _)
RECURSIVE handleArrayValue(_, _, _, _, _, _)

setNestedValue(obj, keyPath, value, o, depth) ==
  IF o.strictDepth /\ depth > o.depth THEN Throw("DEPTH_EXCEEDED")
  ELSE IF depth > o.depth THEN handleDuplicateKey(obj, FlatKey(keyPath), value, o)
  ELSE IF Len(keyPath) = 0 THEN obj
  ELSE LET currentKey == keyPath[1]
       IN IF currentKey = <<>> THEN obj
          ELSE IF ~o.allowPrototypes /\ hasPrototypePollution(currentKey) THEN obj
          ELSE IF Len(keyPath) = 1 THEN handleDuplicateKey(obj, currentKey, value, o)
          ELSE LET nextKey == keyPath[2]
                   isArrayAccess == isArrayIndex(nextKey) \/ nextKey = <<>>
                   created ==
                     IF ~Truthy(Get(obj, currentKey))
                     THEN Set(obj, currentKey,
                              IF isArrayAccess /\ o.parseArrays THEN Arr(<<>>) ELSE NewObj(o))
                     ELSE obj
               IN IF IsThrow(created) THEN created
                  ELSE IF isArrayAccess /\ o.parseArrays
                  THEN handleArrayValue(created, currentKey, Tail(keyPath), value, o,
                                        depth + 1)
                  ELSE IF isObject(Get(created, currentKey))
                  THEN LET child == setNestedValue(Get(created, currentKey), Tail(keyPath),
                                                   value, o, depth + 1)
                       IN IF IsThrow(child) THEN child ELSE Put(created, currentKey, child)
                  ELSE created

\* the limit test with the boundary on the wrong side
IndexOverLimitInclusive(index, o) == index >= o.arrayLimit

\* index > opts.arrayLimit
IndexOverLimit(index, o) == index > o.arrayLimit

handleArrayValue(obj, key, remainingPath, value, o, depth) ==
  LET arr == Get(obj, key)
      indexKey == remainingPath[1]
  IN IF indexKey = <<>>
     THEN \* arr.push of something that is no array is a TypeError
          IF ~IsArray(arr) THEN Throw("TypeError")
          ELSE IF Len(remainingPath) = 1 THEN Put(obj, key, Arr(Append(arr.v, value)))
          ELSE LET newObj == setNestedValue(NewObj(o), Tail(remainingPath), value, o, depth)
               IN IF IsThrow(newObj) THEN newObj
                  ELSE Put(obj, key, Arr(Append(arr.v, newObj)))
     ELSE IF isArrayIndex(indexKey)
     THEN LET index == parseInt(indexKey)
          IN IF IndexOverLimit(index, o)
             THEN LET replaced == IF ~isObject(arr) THEN Set(obj, key, NewObj(o)) ELSE obj
                  IN IF IsThrow(replaced) THEN replaced
                     ELSE LET child == setNestedValue(Get(replaced, key), remainingPath,
                                                      value, o, depth)
                          IN IF IsThrow(child) THEN child ELSE Put(replaced, key, child)
             ELSE LET grown == Grow(arr, index)
                  IN IF IsThrow(grown) THEN grown
                     ELSE IF Len(remainingPath) = 1
                     THEN LET stored ==
                                SetIndex(grown, index,
                                         IF o.allowEmptyArrays /\ value = Str(<<>>)
                                         THEN Arr(<<>>) ELSE value)
                          IN IF IsThrow(stored) THEN stored ELSE Put(obj, key, stored)
                     ELSE LET withElem ==
                                IF ~Truthy(GetIndex(grown, index))
                                THEN SetIndex(grown, index, NewObj(o))
                                ELSE grown
                          IN IF IsThrow(withElem) THEN withElem
                             ELSE LET child ==
                                        setNestedValue(GetIndex(withElem, index),
                                                       Tail(remainingPath), value, o, depth)
                                  IN IF IsThrow(child) THEN child
                                     ELSE Put(obj, key, PutIndex(withElem, index, child))
     ELSE LET replaced == Set(obj, key, CopyElements(arr, 0, NewObj(o)))
          IN IF IsThrow(replaced) THEN replaced
             ELSE LET child == setNestedValue(Get(replaced, key), remainingPath, value, o,
                                              depth)
                  IN IF IsThrow(child) THEN child ELSE Put(replaced, key, child)

RECURSIVE ReplaceEscapedDot(_)
\* key.replace(/%2E/g, '.')
ReplaceEscapedDot(key) ==
  IF key = <<>> THEN <<>>
  ELSE IF Len(key) >= 3 /\ SubSeq(key, 1, 3) = <<"%", "2", "E">>
       THEN <<".">> \o ReplaceEscapedDot(SubSeq(key, 4, Len(key)))
       ELSE <<key[1]>> \o ReplaceEscapedDot(Tail(key))

parseKeyPath(key, o) ==
  IF o.allowDots /\ Contains(key, ".")
  THEN SplitBy(IF o.decodeDotInKeys THEN ReplaceEscapedDot(key) ELSE key, ".")
  ELSE IF Contains(key, "[") THEN parseBracketNotation(key)
  ELSE <<key>>

parseKeyValue(res, key, value, o) ==
  LET pieces == SplitBy(value.v, ",")
      listed ==
        IF o.comma /\ value.t = "string" /\ Contains(value.v, ",")
        THEN Arr([i \in 1..Len(pieces) |->
                    autoConvert(Trim(pieces[i]), o.parseNumbers, o.parseBooleans)])
        ELSE value
  IN setNestedValue(res, parseKeyPath(key, o), listed, o, 0)

decodeKey(key) == IF key = <<>> THEN <<>> ELSE decode(key)

decodeValue(value, o) ==
  IF value = <<>> THEN (IF o.strictNullHandling THEN Null ELSE Str(<<>>))
  ELSE autoConvert(decode(value), o.parseNumbers, o.parseBooleans)

----------------------------------------------------------------------------
(* the stringifier (src/src/types.ts, from line 284) *)

RECURSIVE ReplaceEscapedSpace(_)
\* str.replace(/%20/g, '+')
ReplaceEscapedSpace(str) ==
  IF str = <<>> THEN <<>>
  ELSE IF Len(str) >= 3 /\ SubSeq(str, 1, 3) = <<"%", "2", "0">>
       THEN <<"+">> \o ReplaceEscapedSpace(SubSeq(str, 4, Len(str)))
       ELSE <<str[1]>> \o ReplaceEscapedSpace(Tail(str))

rfc1738Encoder(str) == ReplaceEscapedSpace(rfc3986Encoder(str))

\* opts.encode ? getEncoder(opts.format) : (str) => str, applied to str
Encoder(str, so) ==
  IF ~so.encode THEN str
  ELSE IF so.format = "RFC1738" THEN rfc1738Encoder(str)
  ELSE rfc3986Encoder(str)

encodeKey(key, so) ==
  IF ~so.encode THEN key
  ELSE IF so.encodeValuesOnly THEN key
  ELSE Encoder(key, so)

encodeValue(value, so) == IF ~so.encode THEN value ELSE Encoder(value, so)

RECURSIVE InsertSorted(_, _)
InsertSorted(n, sorted) ==
  IF sorted = <<>> THEN <<n>>
  ELSE IF n <= sorted[1] THEN <<n>> \o sorted
  ELSE <<sorted[1]>> \o InsertSorted(n, Tail(sorted))

RECURSIVE SortNumbers(_)
SortNumbers(ns) == IF ns = <<>> THEN <<>> ELSE InsertSorted(ns[1], SortNumbers(Tail(ns)))

\* Object.keys: integer-like keys ascending, then the others in insertion order
ObjectKeys(x) ==
  CASE x.t = "object" ->
         LET IsIndex(k) == IsCanonicalIndex(k)
             IsName(k) == ~IsCanonicalIndex(k)
             indexKeys == SelectSeq(x.k, IsIndex)
             sortedIdx == SortNumbers([i \in 1..Len(indexKeys) |-> parseInt(indexKeys[i])])
         IN [i \in 1..Len(sortedIdx) |-> NumberToString(sortedIdx[i])]
            \o SelectSeq(x.k, IsName)
    [] x.t = "array" -> [i \in 1..Len(x.v) |-> NumberToString(i - 1)]
    [] OTHER -> <<>>

\* the order localeCompare gives the characters of the model's keys
CharOrder ==
  <<"_", "0", "1", "2", "3", "4", "5", "6", "7", "8", "9", "a", "b", "c", "d", "e",
    "f", "g", "h", "i", "j", "k", "l", "m", "n", "o", "p", "q", "r", "s", "t", "u", "v",
    "w", "x", "y", "z">>

CharRank(c) == IF Contains(CharOrder, c) THEN IndexOf(CharOrder, c) ELSE 0

RECURSIVE KeyLessEq(_, _)
KeyLessEq(a, b) ==
  IF a = <<>> THEN TRUE
  ELSE IF b = <<>> THEN FALSE
  ELSE IF a[1] = b[1] THEN KeyLessEq(Tail(a), Tail(b))
  ELSE CharRank(a[1]) <= CharRank(b[1])

RECURSIVE InsertKey(_, _)
InsertKey(key, sorted) ==
  IF sorted = <<>> THEN <<key>>
  ELSE IF KeyLessEq(key, sorted[1]) THEN <<key>> \o sorted
  ELSE <<sorted[1]>> \o InsertKey(key, Tail(sorted))

RECURSIVE SortedKeys(_)
SortedKeys(keys) ==
  IF keys = <<>> THEN <<>> ELSE InsertKey(keys[1], SortedKeys(Tail(keys)))

\* if (opts.sort) keys.sort(opts.sort)
SortKeys(keys, so) == IF so.sort = "none" THEN keys ELSE SortedKeys(keys)

RECURSIVE StringOf(_)
\* String(v)
StringOf(x) ==
  CASE x.t = "string" -> x.v
    [] x.t = "number" -> NumberToString(x.v)
    [] x.t = "boolean" ->
         IF x.v THEN <<"t", "r", "u", "e">> ELSE <<"f", "a", "l", "s", "e">>
    [] x.t = "null" -> <<"n", "u", "l", "l">>
    [] x.t = "undefined" -> <<"u", "n", "d", "e", "f", "i", "n", "e", "d">>
    [] x.t = "array" ->
         Join([i \in 1..Len(x.v) |->
                 IF x.v[i].t \in {"null", "undefined"} THEN <<>> ELSE StringOf(x.v[i])],
              <<",">>)
    [] OTHER -> <<"[", "o", "b", "j", "e", "c", "t", " ", "O", "b", "j", "e", "c", "t", "]">>

\* the object applyFilter writes to: `const result = {}`, a new object and
\* not the input; the store below holds both, so that a write lands on one
\* of them and the input after the call can be read off
FilterCellInput == "input"

FilterCell == "result"

\* Object.entries: the own keys with their values, taken before the loop runs
ObjectEntries(x) == [i \in 1..Len(ObjectKeys(x)) |-> <<ObjectKeys(x)[i], Get(x, ObjectKeys(x)[i])>>]

RECURSIVE FilterByList(_, _)
\* for (key of filter) if (key in input) result[key] = input[key]
FilterByList(st, keys) ==
  IF keys = <<>> THEN st
  ELSE FilterByList(
         IF Get(st.input, keys[1]) # Undef
              \/ (st.input.t = "object" /\ keys[1] \in DOMAIN st.input.v)
         THEN [st EXCEPT ![FilterCell] = Set(@, keys[1], Get(st.input, keys[1]))]
         ELSE st,
         Tail(keys))

\* filter(key, value) for a function that returns undefined for the keys of
\* filter.drop, the string "x" for the keys of filter.rewrite, and the value
\* it was given for every other key
CallFilter(filter, key, value) ==
  IF key \in filter.drop THEN Undef
  ELSE IF key \in filter.rewrite THEN Str(<<"x">>)
  ELSE value

RECURSIVE FilterByFunction(_, _, _)
\* for ([key, value] of Object.entries(input))
\*   if (filter(key, value) !== undefined) result[key] = filtered
FilterByFunction(st, entries, filter) ==
  IF entries = <<>> THEN st
  ELSE LET key == entries[1][1]
           filtered == CallFilter(filter, key, entries[1][2])
       IN FilterByFunction(
            IF filtered # Undef THEN [st EXCEPT ![FilterCell] = Set(@, key, filtered)] ELSE st,
            Tail(entries), filter)

\* the input and the result object when applyFilter returns
FilterStore(x, filter) ==
  LET st == [input |-> x, result |-> EmptyObject(TRUE)]
  IN CASE filter.kind = "array" -> FilterByList(st, filter.keys)
       [] filter.kind = "function" -> FilterByFunction(st, ObjectEntries(x), filter)
       [] OTHER -> st

applyFilter(x, filter) ==
  IF filter.kind \in {"array", "function"} THEN FilterStore(x, filter)[FilterCell] ELSE x

stringifyNull(key, so) ==
  IF so.strictNullHandling THEN <<encodeKey(key, so)>>
  ELSE <<encodeKey(key, so) \o <<"=">>>>

stringifyPrimitive(key, value, so) ==
  <<encodeKey(key, so) \o <<"=">> \o encodeValue(StringOf(value), so)>>

RECURSIVE stringifyValue(_, _, _)
RECURSIVE stringifyArray(_, _, _)
RECURSIVE ArrayLoop(_, _, _, _)
RECURSIVE stringifyObject(_, _, _)
RECURSIVE ObjectLoop(_, _, _, _)

stringifyValue(key, value, so) ==
  CASE value.t = "null" -> stringifyNull(key, so)
    [] value.t = "undefined" -> <<>>
    [] value.t = "array" -> stringifyArray(key, value, so)
    [] value.t = "object" -> stringifyObject(key, value, so)
    [] OTHER -> stringifyPrimitive(key, value, so)

\* the element key with the index in brackets whatever the format
ArrayKeyAlwaysIndices(key, i, so) == key \o <<"[">> \o NumberToString(i) \o <<"]">>

\* the switch of stringifyArray for the formats other than 'comma': arrayKey
ArrayKey(key, i, so) ==
  CASE so.arrayFormat = "indices" -> key \o <<"[">> \o NumberToString(i) \o <<"]">>
    [] so.arrayFormat = "brackets" -> key \o <<"[", "]">>
    [] so.arrayFormat = "repeat" -> key
    [] OTHER ->
         IF so.indices
         THEN key \o <<"[">> \o NumberToString(i) \o <<"]">>
         ELSE key \o <<"[", "]">>

\* the for loop of stringifyArray from index i (0-based) on
ArrayLoop(key, array, i, so) ==
  IF i >= Len(array.v) THEN <<>>
  ELSE LET value == array.v[i + 1]
           IsDefined(x) == x # Undef
           defined == SelectSeq(array.v, IsDefined)
       IN IF value = Undef THEN ArrayLoop(key, array, i + 1, so)
          ELSE IF so.arrayFormat = "comma"
          THEN IF i = 0
               THEN <<encodeKey(key, so) \o <<"=">>
                      \o Join([j \in 1..Len(defined) |->
                                 encodeValue(StringOf(defined[j]), so)],
                              Encoder(<<",">>, so))>>
               ELSE ArrayLoop(key, array, i + 1, so)
          ELSE stringifyValue(ArrayKey(key, i, so), value, so)
               \o ArrayLoop(key, array, i + 1, so)

stringifyArray(key, array, so) ==
  IF Len(array.v) = 0
  THEN IF so.allowEmptyArrays THEN <<encodeKey(key, so) \o <<"[", "]">>>> ELSE <<>>
  ELSE ArrayLoop(key, array, 0, so)

\* the for loop of stringifyObject over the keys left
ObjectLoop(key, obj, objKeys, so) ==
  IF objKeys = <<>> THEN <<>>
  ELSE LET objKey == objKeys[1]
           value == Get(obj, objKey)
           nestedKey ==
             IF so.allowDots
             THEN IF so.encodeDotInKeys
                  THEN key \o <<".">> \o ReplaceChar(objKey, ".", <<"%", "2", "E">>)
                  ELSE key \o <<".">> \o objKey
             ELSE key \o <<"[">> \o objKey \o <<"]">>
       IN IF value = Undef \/ (so.skipNulls /\ value = Null)
          THEN ObjectLoop(key, obj, Tail(objKeys), so)
          ELSE stringifyValue(nestedKey, value, so)
               \o ObjectLoop(key, obj, Tail(objKeys), so)

stringifyObject(key, obj, so) == ObjectLoop(key, obj, SortKeys(ObjectKeys(obj), so), so)

RECURSIVE TopLoop(_, _, _)
\* the for loop of stringify over the keys left
TopLoop(filtered, keys, so) ==
  IF keys = <<>> THEN <<>>
  ELSE LET value == Get(filtered, keys[1])
       IN IF value = Undef \/ (so.skipNulls /\ value = Null)
          THEN TopLoop(filtered, Tail(keys), so)
          ELSE stringifyValue(keys[1], value, so) \o TopLoop(filtered, Tail(keys), so)

\* 'utf8=%E2%9C%93', charset utf-8
Utf8Sentinel == <<"u", "t", "f", "8", "=">> \o CheckMarkEscape

addCharsetSentinel(str) ==
  IF str # <<>> THEN Utf8Sentinel \o <<"&">> \o str ELSE Utf8Sentinel

\* StringifyConfig.validate
StringifyConfigError(so) ==
  IF so.encodeDotInKeys /\ ~so.allowDots THEN "INVALID_DOT_ENCODE" ELSE "none"

\* stringify once the configuration is validated: the string returned
stringify(x, so) ==
  IF ~(x.t \in {"object", "array"}) THEN <<>>
  ELSE LET filtered == applyFilter(x, so.filter)
           keys == SortKeys(ObjectKeys(filtered), so)
           joined == Join(TopLoop(filtered, keys, so), <<so.delimiter>>)
           marked == IF so.charsetSentinel THEN addCharsetSentinel(joined) ELSE joined
       IN IF so.addQueryPrefix /\ marked # <<>> THEN <<"?">> \o marked ELSE marked

----------------------------------------------------------------------------
(* parse: the charset sentinel and the configuration *)

\* the first position at which pat occurs in s; 0 when it does not
FindSub(s, pat) ==
  LET hits == {i \in 1..(Len(s) - Len(pat) + 1) : SubSeq(s, i, i + Len(pat) - 1) = pat}
  IN IF hits = {} THEN 0 ELSE CHOOSE i \in hits : \A j \in hits : i <= j

Utf8Param == <<"u", "t", "f", "8", "=">>

\* detectCharset: str.match(/utf8=([^&]*)/), then decodeURIComponent of the
\* group, which is not guarded by a try: "utf-8", "iso-8859-1" or "URIError"
detectCharset(str) ==
  LET at == FindSub(str, Utf8Param)
      group == SplitBy(SubSeq(str, at + Len(Utf8Param), Len(str)), "&")[1]
  IN IF at = 0 \/ group = <<>> THEN "utf-8"
     ELSE IF ~WellFormed(group) THEN "URIError"
     ELSE IF Unescape(group) = <<"\\u2713">> THEN "utf-8"
     ELSE IF FindSub(Unescape(group), <<"1", "0", "0", "0", "3">>) # 0 THEN "iso-8859-1"
     ELSE "utf-8"

\* str.replace(/^utf8=[^&]*&?/, '')
removeCharsetSentinel(str) ==
  IF Len(str) >= Len(Utf8Param) /\ SubSeq(str, 1, Len(Utf8Param)) = Utf8Param
  THEN IF Contains(str, "&") THEN SubSeq(str, IndexOf(str, "&") + 1, Len(str)) ELSE <<>>
  ELSE str

DefaultArrayLimit == 20
DefaultDepth == 5
DefaultParameterLimit == 1000

\* the defaults of ParseConfig's constructor
DefaultParseOptions ==
  [allowDots |-> FALSE, allowEmptyArrays |-> FALSE, allowPrototypes |-> FALSE,
   allowSparse |-> FALSE, arrayLimit |-> DefaultArrayLimit, charsetSentinel |-> FALSE,
   comma |-> FALSE, decodeDotInKeys |-> FALSE, delimiter |-> "&",
   depth |-> DefaultDepth, duplicates |-> "combine", ignoreQueryPrefix |-> FALSE,
   parameterLimit |-> DefaultParameterLimit, parseArrays |-> TRUE,
   plainObjects |-> FALSE, strictNullHandling |-> FALSE, strictDepth |-> FALSE,
   parseNumbers |-> FALSE, parseBooleans |-> FALSE]

\* the defaults of StringifyConfig's constructor
DefaultStringifyOptions ==
  [addQueryPrefix |-> FALSE, allowDots |-> FALSE, allowEmptyArrays |-> FALSE,
   arrayFormat |-> "indices", charsetSentinel |-> FALSE, delimiter |-> "&",
   encode |-> TRUE, encodeDotInKeys |-> FALSE, encodeValuesOnly |-> FALSE,
   filter |-> [kind |-> "none"], format |-> "RFC3986", indices |-> TRUE,
   skipNulls |-> FALSE, sort |-> "none", strictNullHandling |-> FALSE]

\* validate without its test of parameterLimit
ParseConfigErrorNoParameterLimit(o) ==
  IF o.arrayLimit < 0 THEN "INVALID_ARRAY_LIMIT"
  ELSE IF o.depth < 0 THEN "INVALID_DEPTH"
  ELSE IF o.decodeDotInKeys /\ ~o.allowDots THEN "INVALID_DOT_DECODE"
  ELSE "none"

\* ParseConfig.validate
ParseConfigError(o) ==
  IF o.arrayLimit < 0 THEN "INVALID_ARRAY_LIMIT"
  ELSE IF o.depth < 0 THEN "INVALID_DEPTH"
  ELSE IF o.parameterLimit < 0 THEN "INVALID_PARAMETER_LIMIT"
  ELSE IF o.decodeDotInKeys /\ ~o.allowDots THEN "INVALID_DOT_DECODE"
  ELSE "none"

----------------------------------------------------------------------------
(* The operations *)

\* the value passed to stringify as the call leaves it: the only writes to an
\* object are those of applyFilter (keys.sort and objKeys.sort sort the new
\* arrays that Object.keys returns, pairs is local)
InputAfterStringify(x, so) ==
  IF StringifyConfigError(so) # "none" \/ ~(x.t \in {"object", "array"}) THEN x
  ELSE FilterStore(x, so.filter).input

\* stringify(data, sopts); its result is handed to parse
Stringify ==
  /\ pc = "stringify"
  /\ IF StringifyConfigError(sopts) # "none"
     THEN /\ pc' = "thrown"
          /\ error' = StringifyConfigError(sopts)
          /\ input' = input
     ELSE /\ pc' = "parse"
          /\ error' = error
          /\ input' = stringify(data, sopts)
  /\ data' = InputAfterStringify(data, sopts)
  /\ UNCHANGED <<sopts, opts, pairs, parameterCount, result>>

\* parse, up to its loop: the configuration, the empty input, trim, the query
\* prefix, the charset sentinel and the split
Begin ==
  /\ pc = "parse"
  /\ LET trimmed == Trim(input)
         str == IF opts.ignoreQueryPrefix /\ trimmed # <<>> /\ trimmed[1] = "?"
                THEN Tail(trimmed) ELSE trimmed
         charset == IF opts.charsetSentinel THEN detectCharset(str) ELSE "utf-8"
         rest == IF opts.charsetSentinel THEN removeCharsetSentinel(str) ELSE str
     IN IF ParseConfigError(opts) # "none"
        THEN /\ pc' = "thrown"
             /\ error' = ParseConfigError(opts)
             /\ UNCHANGED <<pairs, parameterCount, result>>
        ELSE IF input = <<>>
        THEN /\ pc' = "done"
             /\ result' = NewObj(opts)
             /\ UNCHANGED <<pairs, parameterCount, error>>
        ELSE IF charset # "utf-8"
        THEN /\ pc' = "thrown"
             /\ error' = (IF charset = "URIError" THEN "URIError" ELSE "UNMODELLED")
             /\ UNCHANGED <<pairs, parameterCount, result>>
        ELSE /\ pc' = "loop"
             /\ pairs' = splitByDelimiter(rest, opts.delimiter)
             /\ parameterCount' = 0
             /\ result' = NewObj(opts)
             /\ error' = error
  /\ UNCHANGED <<data, sopts, opts, input>>

\* the loop's test with the boundary on the wrong side
BreakAtLimitInclusive(count, o) == count >= o.parameterLimit

\* if (parameterCount > opts.parameterLimit) break
BreakAtLimit(count, o) == count > o.parameterLimit

\* the body of parse's loop after the limit test: the result with the pair
\* folded in, the result as it was for a skipped pair, or the error raised
LoopBody(res, pair, o) ==
  LET equalIndex == IndexOf(pair, "=")
      key == IF equalIndex = 0 THEN pair ELSE SubSeq(pair, 1, equalIndex - 1)
      value == IF equalIndex = 0 THEN <<>> ELSE SubSeq(pair, equalIndex + 1, Len(pair))
      decodedKey == decodeKey(key)
      decodedValue == decodeValue(value, o)
  IN IF pair = <<>> \/ decodedKey = <<>> THEN res
     ELSE parseKeyValue(res, decodedKey, decodedValue, o)

\* one iteration of parse's loop over the pairs
Iterate ==
  /\ pc = "loop"
  /\ parameterCount < Len(pairs)
  /\ parameterCount' = parameterCount + 1
  /\ LET limit == checkLimit(parameterCount + 1, opts.parameterLimit, FALSE)
         parsed == LoopBody(result, pairs[parameterCount + 1], opts)
     IN IF IsThrow(limit)
        THEN pc' = "thrown" /\ error' = limit.v /\ result' = result
        ELSE IF BreakAtLimit(parameterCount + 1, opts)
        THEN pc' = "return" /\ UNCHANGED <<result, error>>
        ELSE IF IsThrow(parsed)
        THEN pc' = "thrown" /\ error' = parsed.v /\ result' = result
        ELSE pc' = pc /\ result' = parsed /\ error' = error
  /\ UNCHANGED <<data, sopts, opts, input, pairs>>

\* parse returns its result: the loop ran out of pairs, or broke at the limit
Return ==
  /\ (pc = "return" \/ (pc = "loop" /\ parameterCount = Len(pairs)))
  /\ pc' = "done"
  /\ UNCHANGED <<data, sopts, opts, input, pairs, parameterCount, result, error>>

Next == Begin \/ Iterate \/ Return

----------------------------------------------------------------------------
(* Inputs *)

\* [seg]
Br(seg) == <<"[">> \o seg \o <<"]">>

\* the bracket-notation key of a path: a[b][c] for <<a, b, c>>
BracketKey(path) == path[1] \o Concat([i \in 1..(Len(path) - 1) |-> Br(path[i + 1])])

\* key=value
PairText(key, value) == key \o <<"=">> \o value

\* the query string of a sequence of pairs
QueryOf(ps) == Join(ps, <<"&">>)

\* the sequences over S of length at most n
SeqsUpTo(S, n) == UNION {[1..m -> S] : m \in 0..n}

\* a call parse(input, o) with o in optionSet and input in inputSet
ParseCall(optionSet, inputSet) ==
  /\ data = Undef
  /\ sopts = DefaultStringifyOptions
  /\ opts \in optionSet
  /\ input \in inputSet
  /\ pairs = <<>>
  /\ parameterCount = 0
  /\ result = Undef
  /\ pc = "parse"
  /\ error = "none"

\* an object literal: the keys in order, with their values
ObjectOf(keys, values) ==
  [t |-> "object", k |-> keys,
   v |-> [key \in {keys[i] : i \in 1..Len(keys)} |->
            values[CHOOSE i \in 1..Len(keys) : keys[i] = key]],
   p |-> TRUE]

\* the key and the value text of a pair, as written in the input
PairKey(pair) ==
  IF Contains(pair, "=") THEN SubSeq(pair, 1, IndexOf(pair, "=") - 1) ELSE pair
PairValue(pair) ==
  IF Contains(pair, "=") THEN SubSeq(pair, IndexOf(pair, "=") + 1, Len(pair)) ELSE <<>>

\* the pairs the loop has been through
Processed == SubSeq(pairs, 1, parameterCount)

\* the value texts of the processed pairs whose key is k, in order of occurrence
OccurrencesOf(k) ==
  LET HasKey(pair) == PairKey(pair) = k
      hits == SelectSeq(Processed, HasKey)
  IN [i \in 1..Len(hits) |-> Str(PairValue(hits[i]))]

----------------------------------------------------------------------------
(* Duplicate keys: parse(input, {duplicates}) on repeated plain keys *)

MaxOccur == 3

DupKeys == {<<"a">>, <<"b">>}
DupValues == {<<"x">>, <<"y">>, <<>>}
DupPairs == {PairText(k, v) : k \in DupKeys, v \in DupValues}
DupOptions ==
  {[DefaultParseOptions EXCEPT !.duplicates = d] : d \in {"combine", "first", "last"}}

InitDuplicates ==
  ParseCall(DupOptions, {QueryOf(ps) : ps \in SeqsUpTo(DupPairs, MaxOccur)})

SpecDuplicates == InitDuplicates /\ [][Next]_vars

\* C2: a plain key that has occurred n >= 2 times with the scalar values
\* v1..vn holds, after each occurrence, [v1,...,vn] under duplicates =
\* 'combine' (a two-element sequence after the second occurrence, one more
\* element after each later one), v1 under 'first' and vn under 'last'.
C2_DuplicatePolicy ==
  pc \in {"loop", "return", "done"} =>
    \A k \in DupKeys :
      LET vs == OccurrencesOf(k)
      IN Len(vs) >= 2 =>
           Get(result, k) =
             CASE opts.duplicates = "combine" -> Arr(vs)
               [] opts.duplicates = "first" -> vs[1]
               [] opts.duplicates = "last" -> vs[Len(vs)]

\* a=x, a=y and a third a= processed under 'combine': three elements in order
C2_Witness ==
  /\ pc = "done"
  /\ opts.duplicates = "combine"
  /\ OccurrencesOf(<<"a">>) = <<Str(<<"x">>), Str(<<"y">>), Str(<<>>)>>
  /\ Get(result, <<"a">>) = Arr(<<Str(<<"x">>), Str(<<"y">>), Str(<<>>)>>)

----------------------------------------------------------------------------
(* The prototype guard: parse with allowPrototypes false on keys that carry *)
(* a guarded segment in any position and notation                           *)

MaxGuardPairs == 2
MaxGuardDepth == 1

A == <<"a">>
B == <<"b">>
X == <<"x">>

\* __proto__ written with escaped underscores
EscapedProtoKey ==
  <<"%", "5", "F", "%", "5", "F", "p", "r", "o", "t", "o", "%", "5", "F", "%", "5", "F">>

GuardedNames == {ProtoKey, ConstructorKey, PrototypeKey}

GuardKeys ==
  { ProtoKey,                                    \* __proto__
    BracketKey(<<ConstructorKey, A>>),           \* constructor[a]
    BracketKey(<<A, PrototypeKey>>),             \* a[prototype]
    BracketKey(<<A, ProtoKey, B>>),              \* a[__proto__][b]
    BracketKey(<<A, <<"0">>, ConstructorKey>>),  \* a[0][constructor]
    BracketKey(<<A, <<>>, ProtoKey>>),           \* a[][__proto__]
    BracketKey(<<A, B, ConstructorKey>>),        \* a[b][constructor]
    Br(ProtoKey),                                \* [__proto__]
    A \o <<".">> \o ProtoKey,                    \* a.__proto__
    PrototypeKey \o <<".">> \o A,                \* prototype.a
    BracketKey(<<A, EscapedProtoKey>>),          \* a[%5F%5Fproto%5F%5F]
    A,                                           \* a
    BracketKey(<<A, B>>),                        \* a[b]
    BracketKey(<<A, <<"0">>>>) }                 \* a[0]

GuardOptions ==
  {[DefaultParseOptions EXCEPT !.allowDots = dots, !.depth = d, !.parseArrays = arrays] :
     dots \in BOOLEAN, d \in (0..MaxGuardDepth) \cup {DefaultDepth}, arrays \in BOOLEAN}

InitGuard ==
  ParseCall(GuardOptions,
            {QueryOf(ps) : ps \in SeqsUpTo({PairText(k, X) : k \in GuardKeys}, MaxGuardPairs)})

SpecGuard == InitGuard /\ [][Next]_vars

RECURSIVE HasGuardedKey(_)
\* some mapping inside x has an own key that is a guarded name
HasGuardedKey(x) ==
  CASE x.t = "object" ->
         \E key \in DOMAIN x.v : key \in GuardedNames \/ HasGuardedKey(x.v[key])
    [] x.t = "array" -> \E i \in 1..Len(x.v) : HasGuardedKey(x.v[i])
    [] OTHER -> FALSE

\* the decoded path of a pair of the input
PathOf(pair) == parseKeyPath(decodeKey(PairKey(pair)), opts)

HasGuardedSegment(pair) == \E i \in 1..Len(PathOf(pair)) : PathOf(pair)[i] \in GuardedNames

\* C3: with allowPrototypes false, after any sequence of pairs no mapping at
\* any level of the result has an own key __proto__, constructor or prototype.
C3_NoGuardedKey ==
  (~opts.allowPrototypes /\ pc \in {"loop", "return", "done"}) => ~HasGuardedKey(result)

\* two pairs were folded, one with a guarded segment behind a[b], and the
\* result holds what came before the guarded segment
C3_Witness ==
  /\ pc = "done"
  /\ parameterCount = 2
  /\ \E i \in 1..2 : HasGuardedSegment(pairs[i]) /\ Len(PathOf(pairs[i])) = 3
  /\ isObject(Get(result, A))

----------------------------------------------------------------------------
(* Kind conflicts: one key used as a scalar, a sequence and a mapping *)

MaxConflictPairs == 2

C == <<"c">>
Y == <<"y">>

ConflictKeys ==
  { A,                                 \* a
    BracketKey(<<A, <<>>>>),           \* a[]
    BracketKey(<<A, <<"0">>>>),        \* a[0]
    BracketKey(<<A, <<"1">>>>),        \* a[1]
    BracketKey(<<A, B>>),              \* a[b]
    BracketKey(<<A, B, C>>),           \* a[b][c]
    BracketKey(<<A, <<"0">>, B>>) }    \* a[0][b]

ConflictOptions ==
  {[DefaultParseOptions EXCEPT !.duplicates = d] : d \in {"combine", "first", "last"}}

InitConflict ==
  ParseCall(ConflictOptions,
            {QueryOf(ps) :
               ps \in SeqsUpTo({PairText(k, v) : k \in ConflictKeys, v \in {X, <<>>}},
                               MaxConflictPairs)})

SpecConflict == InitConflict /\ [][Next]_vars

\* C4: with strictDepth false parse raises no error, whatever the order and
\* mix of pairs (a key used first as a scalar and later with bracket
\* segments, or first as a mapping and later as a sequence).
C4_Total == ~opts.strictDepth => pc # "thrown"

----------------------------------------------------------------------------
(* Depth: parse(input, {depth, strictDepth}) on keys of every segment kind *)

MaxDepth == 2
MaxDepthPairs == 2

D == <<"d">>

DepthKeys ==
  { A,                                 \* a
    BracketKey(<<A, B>>),              \* a[b]
    BracketKey(<<A, B, C>>),           \* a[b][c]
    BracketKey(<<A, B, C, D>>),        \* a[b][c][d]
    BracketKey(<<A, <<"0">>>>),        \* a[0]
    BracketKey(<<A, <<>>>>),           \* a[]
    BracketKey(<<A, <<"0">>, B>>),     \* a[0][b]
    BracketKey(<<A, B, <<"0">>>>),     \* a[b][0]
    BracketKey(<<A, <<>>, B>>),        \* a[][b]
    BracketKey(<<A, B, <<>>>>) }       \* a[b][]

DepthOptions ==
  {[DefaultParseOptions EXCEPT !.depth = d, !.strictDepth = strict] :
     d \in 0..MaxDepth, strict \in BOOLEAN}

InitDepth ==
  ParseCall(DepthOptions,
            {QueryOf(ps) : ps \in SeqsUpTo({PairText(k, X) : k \in DepthKeys}, MaxDepthPairs)})

SpecDepth == InitDepth /\ [][Next]_vars

\* the pair the loop has just been through, if it was not skipped
LastPair == pairs[parameterCount]
LastProcessed ==
  /\ pc \in {"loop", "return", "done", "thrown"}
  /\ parameterCount >= 1
  /\ parameterCount <= opts.parameterLimit
  /\ decodeKey(PairKey(LastPair)) # <<>>

\* C5: with strictDepth true parse raises DEPTH_EXCEEDED whenever a processed
\* pair's key has more than depth+1 segments, whatever their kinds; with
\* strictDepth false it never raises that error.
C5_StrictDepth ==
  /\ (opts.strictDepth /\ LastProcessed /\ Len(PathOf(LastPair)) > opts.depth + 1)
       => (pc = "thrown" /\ error = "DEPTH_EXCEEDED")
  /\ ~opts.strictDepth => error # "DEPTH_EXCEEDED"

\* a named segment: not empty, not a decimal index, and not one of the names
\* the prototype guard drops
IsNamed(seg) == seg # <<>> /\ ~isArrayIndex(seg) /\ seg \notin GuardedNames

RECURSIVE Nested(_, _)
\* the mapping {s1: {s2: ... {sn: leaf}}} for path <<s1, ..., sn>>
Nested(path, leaf) ==
  IF path = <<>> THEN leaf ELSE ObjectOf(<<path[1]>>, <<Nested(Tail(path), leaf)>>)

\* the result of flattening path at depth d: the mapping reached through the
\* first d+1 segments holds the value under the bracket text of the rest
Flattened(path, d, value) ==
  Nested(SubSeq(path, 1, d + 1),
         ObjectOf(<<BracketKey(SubSeq(path, d + 2, Len(path)))>>, <<value>>))

\* C6: with strictDepth false, a key s0[s1]...[sn] of named segments (none of
\* them a name the prototype guard drops) with n > depth, parsed into an
\* empty result, is stored exactly once: the result is the chain of mappings
\* s0, ..., s_depth, the last holding the value under the one flat key
\* s_(depth+1)[s_(depth+2)]...[s_n]; no error is raised.
C6_DepthFlattening ==
  (/\ ~opts.strictDepth
   /\ LastProcessed
   /\ parameterCount = 1
   /\ \A i \in 1..Len(PathOf(LastPair)) : IsNamed(PathOf(LastPair)[i])
   /\ Len(PathOf(LastPair)) - 1 > opts.depth)
    => (/\ pc # "thrown"
        /\ result = Flattened(PathOf(LastPair), opts.depth, Str(PairValue(LastPair))))

\* a[b][c][d]=x under depth 1: a.b holds x under the flat key c[d]
C6_Witness ==
  /\ pc = "done"
  /\ ~opts.strictDepth
  /\ opts.depth = 1
  /\ parameterCount = 1
  /\ PathOf(LastPair) = <<A, B, C, D>>
  /\ Get(Get(Get(result, A), B), <<"c", "[", "d", "]">>) = Str(X)

----------------------------------------------------------------------------
(* Array indexes: parse(input, {arrayLimit}) on keys a[i] and a[] *)

MaxLimit == 2
MaxArrayPairs == 2

\* a[i] for the indexes up to one past the largest limit, written without
\* leading zeros, and the append key a[]
ArrayKeys ==
  {BracketKey(<<A, NumberToString(i)>>) : i \in 0..(MaxLimit + 1)}
    \cup {BracketKey(<<A, <<>>>>)}

ArrayOptions == {[DefaultParseOptions EXCEPT !.arrayLimit = l] : l \in 0..MaxLimit}

InitArray ==
  ParseCall(ArrayOptions,
            {QueryOf(ps) :
               ps \in SeqsUpTo({PairText(k, v) : k \in ArrayKeys, v \in {X, Y}},
                               MaxArrayPairs)})

SpecArray == InitArray /\ [][Next]_vars

----------------------------------------------------------------------------
(* Absent and empty values: parse(input, {strictNullHandling}) *)

MaxNullPairs == 2

NullPairs ==
  { A,                       \* a
    PairText(A, <<>>),       \* a=
    PairText(A, X),          \* a=x
    B,                       \* b
    PairText(B, <<>>),       \* b=
    PairText(B, X) }         \* b=x

NullOptions == {[DefaultParseOptions EXCEPT !.strictNullHandling = s] : s \in BOOLEAN}

InitNull == ParseCall(NullOptions, {QueryOf(ps) : ps \in SeqsUpTo(NullPairs, MaxNullPairs)})

SpecNull == InitNull /\ [][Next]_vars

\* C8: a processed pair whose key occurs once holds: null for a pair with no
\* '=' under strictNullHandling, the empty string for a pair with '=' and
\* nothing after it, and the empty string for both without strictNullHandling.
C8_StrictNull ==
  pc \in {"loop", "return", "done"} =>
    \A i \in 1..parameterCount :
      Len(OccurrencesOf(PairKey(pairs[i]))) = 1 =>
        Get(result, PairKey(pairs[i])) =
          IF ~Contains(pairs[i], "=") /\ opts.strictNullHandling
          THEN Null
          ELSE Str(PairValue(pairs[i]))

----------------------------------------------------------------------------
(* Append and index notation: parse(input) with default options *)

MaxElements == 3

\* the values v0..v(n-1): every choice of up to MaxElements values, and the
\* longest sequences the default arrayLimit admits
ElementValues ==
  SeqsUpTo({X, Y, <<>>}, MaxElements)
    \cup {[i \in 1..(DefaultArrayLimit + 1) |-> v] : v \in {X, Y}}

\* a[]=v0&...&a[]=v(n-1)
AppendInput(vs) == QueryOf([i \in 1..Len(vs) |-> PairText(BracketKey(<<A, <<>>>>), vs[i])])

\* a[0]=v0&...&a[n-1]=v(n-1)
IndexInput(vs) ==
  QueryOf([i \in 1..Len(vs) |-> PairText(BracketKey(<<A, NumberToString(i - 1)>>), vs[i])])

InitNotation ==
  ParseCall({DefaultParseOptions},
            {AppendInput(vs) : vs \in ElementValues} \cup {IndexInput(vs) : vs \in ElementValues})

SpecNotation == InitNotation /\ [][Next]_vars

\* C9: with default options, after the first m pairs of a[]=v0&...&a[]=v(n-1)
\* and after the first m pairs of a[0]=v0&...&a[n-1]=v(n-1), n <= arrayLimit+1,
\* the result is the same {a: [v0, ..., v(m-1)]}, elements in order of
\* occurrence; so the two inputs parse to the same result.
C9_AppendIndexAgree ==
  (pc \in {"loop", "return", "done"} /\ parameterCount >= 1) =>
    result = ObjectOf(<<A>>, <<Arr([i \in 1..parameterCount |-> Str(PairValue(pairs[i]))])>>)

\* the index form with arrayLimit+1 elements, the last at index arrayLimit
C9_Witness ==
  /\ pc = "done"
  /\ input = IndexInput([i \in 1..(DefaultArrayLimit + 1) |-> X])
  /\ IsArray(Get(result, A))
  /\ Len(Get(result, A).v) = DefaultArrayLimit + 1

----------------------------------------------------------------------------
(* The parameter ceiling: parse(input, {parameterLimit}) *)

MaxParams == 2

\* a=x, b=y, c[]=x and the empty pair
LimitPairs ==
  {PairText(A, X), PairText(B, Y), PairText(BracketKey(<<C, <<>>>>), X), <<>>}

LimitOptions == {[DefaultParseOptions EXCEPT !.parameterLimit = l] : l \in 0..MaxParams}

InitLimit ==
  ParseCall(LimitOptions, {QueryOf(ps) : ps \in SeqsUpTo(LimitPairs, MaxParams + 1)})

SpecLimit == InitLimit /\ [][Next]_vars

RECURSIVE ParseOnly(_, _, _)
\* the result of parsing the pairs ps, all of them, into res
ParseOnly(ps, res, o) ==
  IF ps = <<>> \/ IsThrow(res) THEN res
  ELSE ParseOnly(Tail(ps), LoopBody(res, Head(ps), o), o)

\* the first n elements of a sequence, all of it when it is shorter
FirstN(ps, n) == SubSeq(ps, 1, IF n < Len(ps) THEN n ELSE Len(ps))

\* C10: parse with parameterLimit = L raises no error, and returns the result
\* of parsing only the first L delimiter-separated pairs of its input.
C10_ParameterCeiling ==
  /\ pc # "thrown"
  /\ pc = "done" =>
       result = ParseOnly(FirstN(pairs, opts.parameterLimit), NewObj(opts), opts)

\* a=x&b=y&c[]=x under parameterLimit 2: a and b are in, c is not
C10_Witness ==
  /\ pc = "done"
  /\ opts.parameterLimit = 2
  /\ Len(pairs) = 3
  /\ parameterCount = 3
  /\ Get(result, A) = Str(X)
  /\ Get(result, B) = Str(Y)
  /\ Get(result, C) = Undef

----------------------------------------------------------------------------
(* Round trip: parse(stringify(v), {parseNumbers: true, parseBooleans: true}) *)

MaxRoundTripKeys == 2

\* strings, numbers, booleans, and mappings and sequences of them, one inside
\* the other in every combination of two levels
RoundTripValues ==
  { Str(X), Str(<<>>), Num(1), Bool(TRUE),
    Arr(<<Str(X), Num(1)>>),                 \* ["x", 1]
    ObjectOf(<<B>>, <<Str(X)>>),             \* {b: "x"}
    ObjectOf(<<B>>, <<Arr(<<Str(X)>>)>>),    \* {b: ["x"]}
    Arr(<<ObjectOf(<<B>>, <<Str(X)>>)>>),    \* [{b: "x"}]
    Arr(<<Arr(<<Str(X)>>)>>) }               \* [["x"]]

\* the keys of the top-level mapping, in order
RoundTripKeys == <<A, C, D>>

\* the mappings of one to MaxRoundTripKeys keys with those values
RoundTripData ==
  UNION {{ObjectOf(SubSeq(RoundTripKeys, 1, n), vs) : vs \in [1..n -> RoundTripValues]} :
           n \in 1..MaxRoundTripKeys}

InitRoundTrip ==
  /\ data \in RoundTripData
  /\ sopts = DefaultStringifyOptions
  /\ opts = [DefaultParseOptions EXCEPT !.parseNumbers = TRUE, !.parseBooleans = TRUE]
  /\ input = <<>>
  /\ pairs = <<>>
  /\ parameterCount = 0
  /\ result = Undef
  /\ pc = "stringify"
  /\ error = "none"

NextRoundTrip == Stringify \/ Begin \/ Iterate \/ Return

SpecRoundTrip == InitRoundTrip /\ [][NextRoundTrip]_vars

RECURSIVE Widen(_)
\* a value with every scalar leaf widened as parse widens its text
Widen(v) ==
  CASE v.t = "array" -> Arr([i \in 1..Len(v.v) |-> Widen(v.v[i])])
    [] v.t = "object" -> [v EXCEPT !.v = [key \in DOMAIN v.v |-> Widen(v.v[key])]]
    [] OTHER -> autoConvert(StringOf(v), TRUE, TRUE)

\* C1: parse(stringify(v), {parseNumbers: true, parseBooleans: true}) raises
\* no error and equals v up to scalar type widening, for v built from strings,
\* numbers, booleans and nested mappings and sequences.
C1_RoundTrip ==
  /\ pc # "thrown"
  /\ pc = "done" => result = Widen(data)

----------------------------------------------------------------------------
(* Configurations: parse and stringify called with valid and invalid options *)

MaxNegative == 1

\* a negative value, zero, and the default
LimitValues(default) == ((0 - MaxNegative)..0) \cup {default}

ConfigParseOptions ==
  {[DefaultParseOptions EXCEPT !.arrayLimit = l, !.depth = d, !.parameterLimit = n,
                               !.decodeDotInKeys = dd, !.allowDots = dots,
                               !.charsetSentinel = cs] :
     l \in LimitValues(DefaultArrayLimit), d \in LimitValues(DefaultDepth),
     n \in LimitValues(DefaultParameterLimit), dd \in BOOLEAN, dots \in BOOLEAN,
     cs \in BOOLEAN}

ConfigStringifyOptions ==
  {[DefaultStringifyOptions EXCEPT !.encodeDotInKeys = ed, !.allowDots = dots] :
     ed \in BOOLEAN, dots \in BOOLEAN}

\* the empty string, a=x, and an input whose sentinel cannot be decoded
ConfigInputs ==
  { <<>>, PairText(A, X),
    QueryOf(<<PairText(Utf8Param, <<"%">>), PairText(A \o <<".">> \o B, X)>>) }

\* a string (no object), a mapping, and a mapping with a dot in a nested key
ConfigData ==
  { Str(X), ObjectOf(<<A>>, <<Str(X)>>),
    ObjectOf(<<A>>, <<ObjectOf(<<B \o <<".">> \o C>>, <<Str(X)>>)>>) }

InitConfig ==
  \/ ParseCall(ConfigParseOptions, ConfigInputs)
  \/ /\ data \in ConfigData
     /\ sopts \in ConfigStringifyOptions
     /\ opts = DefaultParseOptions
     /\ input = <<>>
     /\ pairs = <<>>
     /\ parameterCount = 0
     /\ result = Undef
     /\ pc = "stringify"
     /\ error = "none"

SpecConfig == InitConfig /\ [][NextRoundTrip]_vars

ParseConfigCodes ==
  {"INVALID_ARRAY_LIMIT", "INVALID_DEPTH", "INVALID_PARAMETER_LIMIT", "INVALID_DOT_DECODE"}

InvalidParseOptions(o) ==
  \/ o.arrayLimit < 0
  \/ o.depth < 0
  \/ o.parameterLimit < 0
  \/ (o.decodeDotInKeys /\ ~o.allowDots)

InvalidStringifyOptions(so) == so.encodeDotInKeys /\ ~so.allowDots

\* C11: a call of parse raises a configuration error, and touches neither the
\* pairs nor the result, exactly when arrayLimit, depth or parameterLimit is
\* negative or decodeDotInKeys is set without allowDots, whatever the input;
\* a call of stringify raises one exactly when encodeDotInKeys is set without
\* allowDots, whatever the value; no later step raises a configuration error.
C11_ConfigErrors ==
  [][/\ pc = "parse" =>
          /\ InvalidParseOptions(opts)
               <=> (pc' = "thrown" /\ error' \in ParseConfigCodes)
          /\ InvalidParseOptions(opts) => (pairs' = pairs /\ result' = result)
     /\ pc = "stringify" =>
          /\ InvalidStringifyOptions(sopts)
               <=> (pc' = "thrown" /\ error' = "INVALID_DOT_ENCODE")
          /\ InvalidStringifyOptions(sopts) => input' = input
     /\ pc \notin {"parse", "stringify"} =>
          error' \notin (ParseConfigCodes \cup {"INVALID_DOT_ENCODE"})]_vars

\* the empty string parsed with a negative parameterLimit, all else valid
C11_Witness ==
  /\ pc = "thrown"
  /\ error = "INVALID_PARAMETER_LIMIT"
  /\ input = <<>>
  /\ data = Undef

----------------------------------------------------------------------------
(* Array formats: stringify(v, {arrayFormat, encode}) on a key holding a sequence *)

MaxSeqLen == 2

\* x, a string with a space, a number and a boolean
FormatScalars == {Str(X), Str(<<"a", " ", "b">>), Num(1), Bool(TRUE)}

\* the scalars, the mapping {b: "x"} and the sequence ["x", "y"]
FormatElements ==
  FormatScalars \cup {ObjectOf(<<B>>, <<Str(X)>>), Arr(<<Str(X), Str(Y)>>)}

FormatSequences == UNION {[1..n -> FormatElements] : n \in 1..MaxSeqLen}

\* {a: seq} and {c: {a: seq}}
FormatData ==
  {ObjectOf(<<A>>, <<Arr(seq)>>) : seq \in FormatSequences}
    \cup {ObjectOf(<<C>>, <<ObjectOf(<<A>>, <<Arr(seq)>>)>>) : seq \in FormatSequences}

FormatOptions ==
  {[DefaultStringifyOptions EXCEPT !.arrayFormat = f, !.encode = e] :
     f \in {"indices", "brackets", "repeat", "comma"}, e \in BOOLEAN}

InitFormats ==
  /\ data \in FormatData
  /\ sopts \in FormatOptions
  /\ opts = DefaultParseOptions
  /\ input = <<>>
  /\ pairs = <<>>
  /\ parameterCount = 0
  /\ result = Undef
  /\ pc = "stringify"
  /\ error = "none"

SpecFormats == InitFormats /\ [][NextRoundTrip]_vars

\* the sequence of the data, and the key text that holds it: a or c[a]
FormatSeq == IF A \in DOMAIN data.v THEN data.v[A].v ELSE data.v[C].v[A].v
FormatKey == IF A \in DOMAIN data.v THEN A ELSE BracketKey(<<C, A>>)

\* the pairs of stringify's output
OutputPairs == IF input = <<>> THEN <<>> ELSE SplitBy(input, sopts.delimiter)

OutputPath(pair) == parseBracketNotation(decode(PairKey(pair)))
OutputValue(pair) == decode(PairValue(pair))

\* C19: under arrayFormat 'comma', every leaf inside an element that is a
\* mapping or a sequence is emitted as a pair of its own, under a path of its
\* own that is longer than the path of the key holding the sequence.
C19_CommaRecurses ==
  (pc # "stringify" /\ sopts.arrayFormat = "comma") =>
    \A i \in 1..Len(FormatSeq) :
      LET element == FormatSeq[i]
          Emitted(leaf) ==
            \E j \in 1..Len(OutputPairs) :
              /\ Len(OutputPath(OutputPairs[j])) > Len(parseBracketNotation(FormatKey))
              /\ OutputValue(OutputPairs[j]) = StringOf(leaf)
      IN /\ element.t = "object" => \A key \in DOMAIN element.v : Emitted(element.v[key])
         /\ element.t = "array" => \A j \in 1..Len(element.v) : Emitted(element.v[j])

----------------------------------------------------------------------------
(* Null leaves: stringify(v, {skipNulls, strictNullHandling}) *)

\* {a: v1, c: {b: v2}, d: [v3]}, each leaf null or "x"
NullData ==
  {ObjectOf(<<A, C, D>>, <<v1, ObjectOf(<<B>>, <<v2>>), Arr(<<v3>>)>>) :
     v1 \in {Null, Str(X)}, v2 \in {Null, Str(X)}, v3 \in {Null, Str(X)}}

NullStringifyOptions ==
  {[DefaultStringifyOptions EXCEPT !.skipNulls = skip, !.strictNullHandling = strict] :
     skip \in BOOLEAN, strict \in BOOLEAN}

InitNullLeaves ==
  /\ data \in NullData
  /\ sopts \in NullStringifyOptions
  /\ opts = DefaultParseOptions
  /\ input = <<>>
  /\ pairs = <<>>
  /\ parameterCount = 0
  /\ result = Undef
  /\ pc = "stringify"
  /\ error = "none"

SpecNullLeaves == InitNullLeaves /\ [][NextRoundTrip]_vars

\* what a leaf under the key text is to emit: nothing for a null under
\* skipNulls, the key alone for a null under strictNullHandling, key= for any
\* other null, key=value for a string
LeafPairs(keyText, leaf) ==
  IF leaf = Null
  THEN IF sopts.skipNulls THEN <<>>
       ELSE IF sopts.strictNullHandling THEN <<encodeKey(keyText, sopts)>>
       ELSE <<encodeKey(keyText, sopts) \o <<"=">>>>
  ELSE <<encodeKey(keyText, sopts) \o <<"=">> \o encodeValue(leaf.v, sopts)>>

\* C13: with skipNulls no null leaf produces an output pair, be it a
\* top-level value, a value inside a nested mapping or an element of a
\* sequence; without skipNulls a null leaf emits the key alone under
\* strictNullHandling and key= otherwise.
C13_SkipNulls ==
  pc # "stringify" =>
    OutputPairs = LeafPairs(A, data.v[A])
                    \o LeafPairs(BracketKey(<<C, B>>), data.v[C].v[B])
                    \o LeafPairs(BracketKey(<<D, <<"0">>>>), data.v[D].v[1])

----------------------------------------------------------------------------
(* Filters and sorting: stringify(v, {filter, sort}) *)

MaxFilterKeys == 2

\* {c: {b: "x", a: "y"}, a: "x"}, {b: "y", a: {b: "x", c: [{b: "y"}]}} and
\* {a: "x", b: "y", c: "x"}
FilterData ==
  { ObjectOf(<<C, A>>, <<ObjectOf(<<B, A>>, <<Str(X), Str(Y)>>), Str(X)>>),
    ObjectOf(<<B, A>>,
             <<Str(Y),
               ObjectOf(<<B, C>>, <<Str(X), Arr(<<ObjectOf(<<B>>, <<Str(Y)>>)>>)>>)>>),
    ObjectOf(<<A, B, C>>, <<Str(X), Str(Y), Str(X)>>) }

\* no filter, the allow-lists of up to MaxFilterKeys keys, and the functions
\* that drop some of a, b and rewrite c or nothing
Filters ==
  {[kind |-> "none"]}
    \cup {[kind |-> "array", keys |-> ks] : ks \in SeqsUpTo({A, B, C}, MaxFilterKeys)}
    \cup {[kind |-> "function", drop |-> dr, rewrite |-> rw] :
            dr \in SUBSET {A, B}, rw \in SUBSET {C}}

FilterOptions ==
  {[DefaultStringifyOptions EXCEPT !.filter = f, !.sort = srt] :
     f \in Filters, srt \in {"none", "localeCompare"}}

InitFilter ==
  /\ data \in FilterData
  /\ sopts \in FilterOptions
  /\ opts = DefaultParseOptions
  /\ input = <<>>
  /\ pairs = <<>>
  /\ parameterCount = 0
  /\ result = Undef
  /\ pc = "stringify"
  /\ error = "none"

SpecFilter == InitFilter /\ [][NextRoundTrip]_vars

\* C14: the value passed to stringify, with every mapping and sequence in it,
\* has after the call the keys, the key order and the values it had before,
\* whatever the filter (none, an allow-list, a function that drops and
\* rewrites) and the sort.
C14_InputUnchanged == [][pc = "stringify" => data' = data]_vars

\* {c: {b, a}, a} through a function that rewrites c, sorted: a=x&c=x was
\* returned, and the mapping at c is still in the value
C14_Witness ==
  /\ pc = "parse"
  /\ sopts.filter.kind = "function"
  /\ sopts.filter.rewrite = {C}
  /\ sopts.sort # "none"
  /\ input = <<"a", "=", "x", "&", "c", "=", "x">>
  /\ data.k = <<C, A>>
  /\ isObject(data.v[C])

\* the position of a key in the allow-list
ListPosition(key) == IndexOf(sopts.filter.keys, key)

\* the segments of an output path that are keys of a mapping
NamedSegments(pair) ==
  {OutputPath(pair)[i] : i \in {j \in 1..Len(OutputPath(pair)) :
                                  ~isArrayIndex(OutputPath(pair)[j])}}

\* C15: the filter is applied at every level of the traversal: with an
\* allow-list, every mapping key of every output path is in the list and the
\* root keys come in allow-list order (when no sort is configured); with a
\* function, no key the function drops appears at any level of an output path.
C15_FilterEveryLevel ==
  pc # "stringify" =>
    /\ sopts.filter.kind = "array" =>
         /\ \A i \in 1..Len(OutputPairs) :
              \A seg \in NamedSegments(OutputPairs[i]) : Contains(sopts.filter.keys, seg)
         /\ sopts.sort = "none" =>
              \A i, j \in 1..Len(OutputPairs) :
                i <= j => ListPosition(OutputPath(OutputPairs[i])[1])
                            <= ListPosition(OutputPath(OutputPairs[j])[1])
    /\ sopts.filter.kind = "function" =>
         \A i \in 1..Len(OutputPairs) :
           \A seg \in NamedSegments(OutputPairs[i]) : seg \notin sopts.filter.drop

----------------------------------------------------------------------------
(* Malformed percent escapes: parse(input, {charsetSentinel}) *)

MaxMalformedPairs == 2

\* a, and keys with a lone % and with a % followed by no hex digits
MalformedKeys == {A, <<"a", "%">>, <<"%", "z", "z">>}

\* x, a lone %, a truncated multi-byte escape, and a + before a lone %
MalformedValues == {X, <<"%">>, <<"%", "E", "2", "%", "9", "C">>, <<"x", "+", "%">>}

\* the pairs over those, and the sentinel with a lone % and with the check mark
MalformedPairs ==
  {PairText(k, v) : k \in MalformedKeys, v \in MalformedValues}
    \cup {PairText(<<"u", "t", "f", "8">>, <<"%">>), Utf8Sentinel}

MalformedOptions == {[DefaultParseOptions EXCEPT !.charsetSentinel = cs] : cs \in BOOLEAN}

InitMalformed ==
  ParseCall(MalformedOptions,
            {QueryOf(ps) : ps \in SeqsUpTo(MalformedPairs, MaxMalformedPairs)})

SpecMalformed == InitMalformed /\ [][Next]_vars

\* C16: parse raises no error on a malformed percent escape, with or without
\* charset-sentinel detection, and keeps the token as written: a processed
\* pair whose key occurs once is in the result under its key text with its
\* value text.
C16_MalformedNeverFatal ==
  /\ pc # "thrown"
  /\ pc \in {"loop", "return", "done"} =>
       \A i \in 1..parameterCount :
         (/\ PairKey(pairs[i]) \in MalformedKeys
          /\ Len(OccurrencesOf(PairKey(pairs[i]))) = 1)
           => Get(result, PairKey(pairs[i])) = Str(PairValue(pairs[i]))

----------------------------------------------------------------------------
(* One key addressed twice: parse(input, {duplicates}) on a[0], a[1], a[], a[b] *)

MaxSegmentPairs == 2

SegmentKeys ==
  { BracketKey(<<A, <<"0">>>>),    \* a[0]
    BracketKey(<<A, <<"1">>>>),    \* a[1]
    BracketKey(<<A, <<>>>>),       \* a[]
    BracketKey(<<A, B>>) }         \* a[b]

InitSegments ==
  ParseCall(DupOptions,
            {QueryOf(ps) :
               ps \in SeqsUpTo({PairText(k, v) : k \in SegmentKeys, v \in {X, Y}},
                               MaxSegmentPairs)})

SpecSegments == InitSegments /\ [][Next]_vars

\* the second segment of a pair's key
SecondSegment(pair) == PathOf(pair)[2]

\* the position an index or append segment gives the first value of a key
FirstPosition(pair) == IF SecondSegment(pair) = <<>> THEN <<"0">> ELSE SecondSegment(pair)

\* C17: when a holds a sequence (from a[0]=x, a[1]=x or a[]=x) and the next
\* pair is a[b]=y, a becomes a mapping holding x under the decimal text of
\* its position and y under b, and nothing else: {a: {0: x, b: y}}.
C17_SequenceToMapping ==
  (/\ pc \in {"loop", "return", "done"}
   /\ parameterCount = 2
   /\ SecondSegment(pairs[1]) # B
   /\ SecondSegment(pairs[2]) = B)
    => LET at == Get(result, A)
       IN /\ isObject(at)
          /\ DOMAIN at.v = {FirstPosition(pairs[1]), B}
          /\ Get(at, FirstPosition(pairs[1])) = Str(PairValue(pairs[1]))
          /\ Get(at, B) = Str(PairValue(pairs[2]))

\* C18: for a[i]=v1 followed by a[i]=v2, position i of a holds v1 under
\* duplicates = 'first', v2 under 'last' and the sequence [v1, v2] under
\* 'combine'.
C18_DuplicateIndex ==
  (/\ pc \in {"loop", "return", "done"}
   /\ parameterCount = 2
   /\ isArrayIndex(SecondSegment(pairs[1]))
   /\ SecondSegment(pairs[2]) = SecondSegment(pairs[1]))
    => Get(Get(result, A), SecondSegment(pairs[1])) =
         CASE opts.duplicates = "first" -> Str(PairValue(pairs[1]))
           [] opts.duplicates = "last" -> Str(PairValue(pairs[2]))
           [] opts.duplicates = "combine" ->
                Arr(<<Str(PairValue(pairs[1])), Str(PairValue(pairs[2]))>>)

----------------------------------------------------------------------------
(* The nesting of parse's result, under the inputs and options of SpecDepth *)

\* the largest of a set of naturals, 0 for the empty set
Largest(ns) == IF ns = {} THEN 0 ELSE CHOOSE n \in ns : \A m \in ns : m <= n

RECURSIVE Containers(_)
\* the number of nested containers from v down to its deepest leaf, v included
Containers(v) ==
  CASE v.t = "object" -> 1 + Largest({Containers(v.v[key]) : key \in DOMAIN v.v})
    [] v.t = "array" -> 1 + Largest({Containers(v.v[i]) : i \in 1..Len(v.v)})
    [] OTHER -> 0

\* C20: with strictDepth false, no leaf of parse's result lies inside more
\* than depth+1 nested containers below the root, whatever the kinds of the
\* segments of the keys.
C20_NestingBound ==
  (~opts.strictDepth /\ pc \in {"loop", "return", "done"}) =>
    Containers(result) - 1 <= opts.depth + 1

----------------------------------------------------------------------------
(* Dots in keys: parse(input, {allowDots, decodeDotInKeys}), and the keys that
   stringify(v, {allowDots, encodeDotInKeys}) writes *)

MaxDotPairs == 2

\* the keys as written in the input: a.b, a%252Eb.c (which percent-decodes to
\* a%2Eb.c), a%252Eb and c.d%252Ea
DotKeys ==
  { A \o <<".">> \o B,
    A \o <<"%", "2", "5", "2", "E">> \o B \o <<".">> \o C,
    A \o <<"%", "2", "5", "2", "E">> \o B,
    C \o <<".">> \o D \o <<"%", "2", "5", "2", "E">> \o A }

DotParseOptions ==
  {[DefaultParseOptions EXCEPT !.allowDots = TRUE, !.decodeDotInKeys = dd] :
     dd \in BOOLEAN}

\* {c: {"a.b": "x"}} and {c: {a: {"b.d": "y"}}}
DotData ==
  { ObjectOf(<<C>>, <<ObjectOf(<<A \o <<".">> \o B>>, <<Str(X)>>)>>),
    ObjectOf(<<C>>, <<ObjectOf(<<A>>, <<ObjectOf(<<B \o <<".">> \o D>>, <<Str(Y)>>)>>)>>) }

InitDots ==
  \/ ParseCall(DotParseOptions,
               {QueryOf(ps) : ps \in SeqsUpTo({PairText(k, X) : k \in DotKeys}, MaxDotPairs)})
  \/ /\ data \in DotData
     /\ sopts = [DefaultStringifyOptions EXCEPT !.allowDots = TRUE, !.encodeDotInKeys = TRUE]
     /\ opts = [DefaultParseOptions EXCEPT !.allowDots = TRUE, !.decodeDotInKeys = TRUE]
     /\ input = <<>>
     /\ pairs = <<>>
     /\ parameterCount = 0
     /\ result = Undef
     /\ pc = "stringify"
     /\ error = "none"

SpecDots == InitDots /\ [][NextRoundTrip]_vars

\* the path a percent-decoded key denotes: split at the literal dots, then
\* %2E restored to a dot inside each segment
DotPath(key) ==
  LET segments == SplitBy(key, ".")
  IN [i \in 1..Len(segments) |-> ReplaceEscapedDot(segments[i])]

\* C21: with allowDots and decodeDotInKeys, a %2E inside a key token is
\* restored to a dot within its segment and does not separate: the first
\* pair of an input is stored under the path of its percent-decoded key split
\* at the literal dots only (a%2Eb.c is [a.b, c]); and a value written by
\* stringify with allowDots and encodeDotInKeys parses back to itself.
C21_DotDecoding ==
  /\ (/\ opts.allowDots
      /\ opts.decodeDotInKeys
      /\ data = Undef
      /\ LastProcessed
      /\ parameterCount = 1)
       => result = Nested(DotPath(decodeKey(PairKey(LastPair))), Str(PairValue(LastPair)))
  /\ (data # Undef /\ pc = "done") => result = data

----------------------------------------------------------------------------
(* Empty sequences: parse(input, {allowEmptyArrays}) and the key[] token that
   stringify(v, {allowEmptyArrays}) writes *)

MaxEmptyPairs == 2

\* a[], a[]=, a[]=x, a[0]= and b=x
EmptyArrayPairs ==
  { BracketKey(<<A, <<>>>>),
    PairText(BracketKey(<<A, <<>>>>), <<>>),
    PairText(BracketKey(<<A, <<>>>>), X),
    PairText(BracketKey(<<A, <<"0">>>>), <<>>),
    PairText(B, X) }

EmptyArrayOptions ==
  {[DefaultParseOptions EXCEPT !.allowEmptyArrays = e] : e \in BOOLEAN}

\* {a: []}, {a: [], b: "x"}, {b: "x", a: []} and {c: {a: []}}
EmptyArrayData ==
  { ObjectOf(<<A>>, <<Arr(<<>>)>>),
    ObjectOf(<<A, B>>, <<Arr(<<>>), Str(X)>>),
    ObjectOf(<<B, A>>, <<Str(X), Arr(<<>>)>>),
    ObjectOf(<<C>>, <<ObjectOf(<<A>>, <<Arr(<<>>)>>)>>) }

InitEmptyArrays ==
  \/ ParseCall(EmptyArrayOptions,
               {QueryOf(ps) : ps \in SeqsUpTo(EmptyArrayPairs, MaxEmptyPairs)})
  \/ /\ data \in EmptyArrayData
     /\ sopts \in {[DefaultStringifyOptions EXCEPT !.allowEmptyArrays = e] : e \in BOOLEAN}
     /\ opts \in EmptyArrayOptions
     /\ input = <<>>
     /\ pairs = <<>>
     /\ parameterCount = 0
     /\ result = Undef
     /\ pc = "stringify"
     /\ error = "none"

SpecEmptyArrays == InitEmptyArrays /\ [][NextRoundTrip]_vars

\* C22: with allowEmptyArrays, a pair a[] with no value, the only pair of its
\* key, leaves the empty sequence at a (a[]&b=x gives {a: [], b: "x"}); and a
\* value with empty sequences written by stringify under allowEmptyArrays
\* parses back to itself under allowEmptyArrays.
C22_EmptyArrays ==
  /\ (/\ opts.allowEmptyArrays
      /\ data = Undef
      /\ pc \in {"loop", "return", "done"}
      /\ \E i \in 1..parameterCount : pairs[i] = BracketKey(<<A, <<>>>>)
      /\ \A i \in 1..parameterCount : PairKey(pairs[i]) \in {BracketKey(<<A, <<>>>>), B}
      /\ Len(OccurrencesOf(BracketKey(<<A, <<>>>>))) = 1)
       => Get(result, A) = Arr(<<>>)
  /\ (data # Undef /\ sopts.allowEmptyArrays /\ opts.allowEmptyArrays /\ pc = "done")
       => result = data

----------------------------------------------------------------------------
(* Sparse mappings: parse(input, {allowSparse, parseArrays, arrayLimit}) with
   index segments *)

MaxSparsePairs == 2

\* utils.compactArray
compactArray(arr) ==
  LET IsDefined(x) == x # Undef
  IN Arr(SelectSeq(arr.v, IsDefined))

\* utils.maybeConvertToArray
maybeConvertToArray(obj, allowSparse) ==
  LET keys == ObjectKeys(obj)
      allNumeric == \A i \in 1..Len(keys) : isArrayIndex(keys[i])
      maxIndex == Largest({parseInt(keys[i]) : i \in 1..Len(keys)})
      Written(n) == {i \in 1..Len(keys) : parseInt(keys[i]) = n}
      arr == Arr([n \in 1..(maxIndex + 1) |->
                    IF Written(n - 1) = {} THEN Undef
                    ELSE obj.v[keys[Largest(Written(n - 1))]]])
  IN IF Len(keys) = 0 THEN obj
     ELSE IF ~allNumeric THEN obj
     ELSE IF ~allowSparse /\ maxIndex >= Len(keys) * 2 THEN obj
     ELSE IF allowSparse THEN arr ELSE compactArray(arr)

\* a[0], a[1], a[5] and a[b], each with the value x
SparsePairs ==
  {PairText(BracketKey(<<A, seg>>), X) : seg \in {<<"0">>, <<"1">>, <<"5">>, B}}

SparseOptions ==
  {[DefaultParseOptions EXCEPT !.allowSparse = s, !.parseArrays = p, !.arrayLimit = l] :
     s \in BOOLEAN, p \in BOOLEAN, l \in {0, DefaultArrayLimit}}

InitSparse ==
  ParseCall(SparseOptions, {QueryOf(ps) : ps \in SeqsUpTo(SparsePairs, MaxSparsePairs)})

SpecSparse == InitSparse /\ [][Next]_vars

RECURSIVE MappingsIn(_)
\* the mappings inside v, v included
MappingsIn(v) ==
  CASE v.t = "object" -> {v} \cup UNION {MappingsIn(v.v[key]) : key \in DOMAIN v.v}
    [] v.t = "array" -> UNION {MappingsIn(v.v[i]) : i \in 1..Len(v.v)}
    [] OTHER -> {}

\* C23: no mapping below the root of parse's result is one that the
\* sparse-to-dense normalization converts to a sequence under the call's
\* allowSparse: a mapping with index keys only has been returned as a sequence
\* unless it is too sparse and allowSparse is false.
C23_SparseNormalization ==
  pc = "done" =>
    \A key \in DOMAIN result.v : \A m \in MappingsIn(result.v[key]) :
      maybeConvertToArray(m, opts.allowSparse) = m

----------------------------------------------------------------------------
(* Sequences below dotted keys: parse(stringify(v, {allowDots, arrayFormat}),
   {allowDots}) for v = {user: {tags: [t1, t2]}} *)

MaxTags == 2

\* {a: {b: tags}} with one to MaxTags scalars as tags
TagData ==
  {ObjectOf(<<A>>, <<ObjectOf(<<B>>, <<Arr([i \in 1..n |-> Str(ts[i])])>>)>>) :
     ts \in [1..MaxTags -> {X, Y}], n \in 1..MaxTags}

TagStringifyOptions ==
  {[DefaultStringifyOptions EXCEPT !.allowDots = TRUE, !.arrayFormat = f,
                                   !.encode = e, !.encodeValuesOnly = vo] :
     f \in {"brackets", "indices"}, e \in BOOLEAN, vo \in BOOLEAN}

InitTags ==
  /\ data \in TagData
  /\ sopts \in TagStringifyOptions
  /\ opts = [DefaultParseOptions EXCEPT !.allowDots = TRUE]
  /\ input = <<>>
  /\ pairs = <<>>
  /\ parameterCount = 0
  /\ result = Undef
  /\ pc = "stringify"
  /\ error = "none"

SpecTags == InitTags /\ [][NextRoundTrip]_vars

----------------------------------------------------------------------------
(* An index above arrayLimit at a key that holds a sequence:
   parse(input, {arrayLimit}) on a[0], a[1] and a[arrayLimit + 1] *)

MaxOverflowPairs == 2

\* a[0], a[1] and the first index above the default limit
OverflowKeys ==
  {BracketKey(<<A, NumberToString(i)>>) : i \in {0, 1, DefaultArrayLimit + 1}}

OverflowOptions == ArrayOptions \cup {DefaultParseOptions}

InitOverflow ==
  ParseCall(OverflowOptions,
            {QueryOf(ps) :
               ps \in SeqsUpTo({PairText(k, v) : k \in OverflowKeys, v \in {X, Y}},
                               MaxOverflowPairs)})

SpecOverflow == InitOverflow /\ [][Next]_vars

\* C25: an iteration over a pair k[i]=v with i above arrayLimit, k holding a
\* sequence with elements, leaves a mapping at k in which every element the
\* sequence held is still present under the decimal string of its index.
C25_OverflowKeepsElements ==
  [][LET pair == pairs[parameterCount + 1]
         path == PathOf(pair)
         before == Get(result, path[1])
         after == Get(result', path[1])
     IN (/\ pc = "loop"
         /\ parameterCount < Len(pairs)
         /\ parameterCount' = parameterCount + 1
         /\ opts.parseArrays
         /\ Len(path) = 2
         /\ isArrayIndex(path[2])
         /\ parseInt(path[2]) > opts.arrayLimit
         /\ IsArray(before)
         /\ Len(before.v) > 0)
          => (/\ pc' # "thrown"
              /\ isObject(after)
              /\ \A j \in 0..(Len(before.v) - 1) :
                   GetIndex(before, j) # Undef =>
                     GetIndex(after, j) = GetIndex(before, j))]_vars

----------------------------------------------------------------------------
(* A scalar at a key that a later pair addresses with a named segment:
   parse(input, {parseNumbers, parseBooleans}) on a=s and a[c]=d *)

MaxScalarPairs == 2

\* the value texts x, the empty string, 0, 1, false and true
ScalarTexts ==
  {X, <<>>, <<"0">>, <<"1">>, <<"f", "a", "l", "s", "e">>, <<"t", "r", "u", "e">>}

\* a=s for every text s, a[c]=y and b[c]=y
ScalarPairs ==
  {PairText(A, s) : s \in ScalarTexts}
    \cup {PairText(BracketKey(<<k, C>>), Y) : k \in {A, B}}

ScalarOptions ==
  {[DefaultParseOptions EXCEPT !.parseNumbers = n, !.parseBooleans = b] :
     n \in BOOLEAN, b \in BOOLEAN}

InitScalar ==
  ParseCall(ScalarOptions, {QueryOf(ps) : ps \in SeqsUpTo(ScalarPairs, MaxScalarPairs)})

SpecScalar == InitScalar /\ [][Next]_vars

IsScalar(x) == x.t \in {"string", "number", "boolean"}

\* C26: an iteration over a pair k[c]=d with a named segment c, k holding a
\* scalar, leaves that scalar at k, whatever the scalar is (the empty string,
\* 0 and false included).
C26_ScalarKept ==
  [][LET pair == pairs[parameterCount + 1]
         path == PathOf(pair)
         before == Get(result, path[1])
     IN (/\ pc = "loop"
         /\ parameterCount < Len(pairs)
         /\ parameterCount' = parameterCount + 1
         /\ Len(path) = 2
         /\ IsNamed(path[2])
         /\ IsScalar(before))
          => (pc' # "thrown" /\ Get(result', path[1]) = before)]_vars

----------------------------------------------------------------------------
(* The frame of a guarded pair, under the calls of SpecGuard *)

\* C27: with allowPrototypes false and a depth that no path exceeds, an
\* iteration over a pair with a segment __proto__, constructor or prototype at
\* any position leaves the result as it was before the pair: no container is
\* created for the segments before the guarded one.
C27_GuardedPairNoEffect ==
  [][LET pair == pairs[parameterCount + 1]
     IN (/\ pc = "loop"
         /\ parameterCount < Len(pairs)
         /\ parameterCount' = parameterCount + 1
         /\ ~opts.allowPrototypes
         /\ opts.depth >= Len(PathOf(pair))
         /\ HasGuardedSegment(pair))
          => result' = result]_vars

----------------------------------------------------------------------------
(* Keys named like members of Object.prototype: parse(input, {plainObjects,
   duplicates}) on toString, valueOf and hasOwnProperty *)

MaxInheritedPairs == 2

\* toString, valueOf, hasOwnProperty and a, each alone, before a named segment
\* and before empty brackets
InheritedKeys ==
  UNION {{k, BracketKey(<<k, B>>), BracketKey(<<k, <<>>>>)} :
           k \in {ToStringKey, ValueOfKey, HasOwnPropertyKey, A}}

InheritedOptions ==
  {[DefaultParseOptions EXCEPT !.plainObjects = p, !.duplicates = d] :
     p \in BOOLEAN, d \in {"combine", "first", "last"}}

InitInherited ==
  ParseCall(InheritedOptions,
            {QueryOf(ps) :
               ps \in SeqsUpTo({PairText(k, X) : k \in InheritedKeys}, MaxInheritedPairs)})

SpecInherited == InitInherited /\ [][Next]_vars

RECURSIVE FoldPairs(_, _)
\* the result of parse's loop over the first n pairs under the options o, or
\* the error it raised
FoldPairs(n, o) ==
  IF n = 0 THEN NewObj(o)
  ELSE LET res == FoldPairs(n - 1, o)
       IN IF IsThrow(res) THEN res ELSE LoopBody(res, pairs[n], o)

RECURSIVE OwnProperties(_)
\* the own keys and values of v at every level, without the prototypes
OwnProperties(v) ==
  CASE v.t = "object" ->
         [t |-> "object", k |-> v.k,
          v |-> [key \in DOMAIN v.v |-> OwnProperties(v.v[key])]]
    [] v.t = "array" -> Arr([i \in 1..Len(v.v) |-> OwnProperties(v.v[i])])
    [] OTHER -> v

\* C28: parse with plainObjects false raises an error exactly when parse with
\* plainObjects true does on the same pairs, and otherwise holds the same own
\* keys and values at every level; keys named toString, valueOf and
\* hasOwnProperty included.
C28_NoInheritedLeak ==
  (~opts.plainObjects /\ pc \in {"loop", "return", "done", "thrown"}) =>
    LET plain == FoldPairs(parameterCount, [opts EXCEPT !.plainObjects = TRUE])
    IN IF pc = "thrown" THEN IsThrow(plain)
       ELSE ~IsThrow(plain) /\ OwnProperties(result) = OwnProperties(plain)

====
